---- MODULE Spec2Model ----
(***************************************************************************)
(* State-machine model of lib/server.js (keepers/finding-api): the Express *)
(* pipeline the Server composes at construction (request logger, cross-    *)
(* cutting middleware, the route table with its authorization gates, the   *)
(* error handler) as one HTTP request travels through it.                  *)
(*                                                                         *)
(* One request is in flight at a time; when it is over the server takes    *)
(* the next one.  Every layer of the stack is one action.  A request path  *)
(* is the sequence of its segments, so "/person-request" is                *)
(* <<"person-request">> and is not under the prefix "/person".             *)
(***************************************************************************)
EXTENDS Integers, Sequences, FiniteSets, TLC

VARIABLES
  phase,      \* "idle" | "running" (travelling the stack) | "ended" (chain stopped)
  path,       \* req.url, as its segments
  cred,       \* the credential of the request: "none" | "bad" | "good"
  rid,        \* the x-request-id header: "" when absent
  pos,        \* index of the first layer not yet offered the request
  err,        \* the error travelling with the request (NoErr: none)
  res,        \* the response: statusCode, body, headersSent
  responses,  \* number of responses written
  sock,       \* the client's socket: "open" | "closed"
  hooks,      \* onFinished listeners registered and not yet fired
  logger,     \* req.logger: NoLogger, or the bindings of the child logger
  log,        \* entries emitted through req.logger
  trace,      \* names of the layers invoked for this request, in order
  gate,       \* the Authorization Gate on this request: "none" | "allowed" | "rejected"
  classified, \* the error the error handler was invoked with (NoErr: not invoked)
  stopped,    \* index of the layer that answered or raised first (0: none)
  writer,     \* who wrote the response: a layer's name, "finalhandler", "" (nobody yet)
  life,       \* the HTTP server of the Server instance (listen / close)
  runs,       \* the error handler applied on its own: the runs so far
  conc        \* two or more requests in flight together: their req objects

vars == <<phase, path, cred, rid, pos, err, res, responses, sock, hooks,
          logger, log, trace, gate, classified, stopped, writer, life, runs, conc>>

\* The request of the pipeline, and what the pipeline leaves alone.
reqVars == <<phase, path, cred, rid, pos, err, res, responses, sock, hooks,
             logger, log, trace, gate, classified, stopped, writer>>
aux == <<life, runs, conc>>

(***************************************************************************)
(* JavaScript values.  A status is a tagged value, since the code can put  *)
(* undefined, a number or a function where a status code is expected.      *)
(* A name is tagged too and carries its string coercion.                   *)
(***************************************************************************)
Undefined == [t |-> "undefined", v |-> 0]
Num(n) == [t |-> "number", v |-> n]
FunctionObject == [t |-> "function", v |-> 0]
Truthy(x) == x.t = "function" \/ (x.t = "number" /\ x.v # 0)
Or(a, b) == IF Truthy(a) THEN a ELSE b

Str(s) == [t |-> "string", v |-> s]
NoName == [t |-> "undefined", v |-> "undefined"]
NumberName == [t |-> "number", v |-> "42"]

\* Members every object inherits from Object.prototype.
ObjectPrototypeKeys == {"constructor", "toString", "hasOwnProperty", "valueOf"}

\* Server.statusCodeByErrorName: the own properties of the mapping.
statusCodeByErrorName == [ValidationError |-> Num(400), CastError |-> Num(400)]

\* Server.statusCodeByErrorName[name]: a property read, which coerces the
\* key to a string and walks the prototype chain.
LookupStatus(name) ==
  IF name.v \in DOMAIN statusCodeByErrorName THEN statusCodeByErrorName[name.v]
  ELSE IF name.v \in ObjectPrototypeKeys THEN FunctionObject
  ELSE Undefined

(***************************************************************************)
(* Errors.  kind "object" is an ordinary Error, "frozen" an Error that     *)
(* cannot be written to, "primitive" a thrown string (whose text is kept   *)
(* in message; a string has no name and no statusCode).                    *)
(***************************************************************************)
MkErr(k, n, s, m) == [kind |-> k, name |-> n, statusCode |-> s, message |-> m]
NoErr == MkErr("none", NoName, Undefined, "")

ErrNames == {Str("ValidationError"), Str("CastError"), Str("UnauthorizedError"),
             Str("MongoError"), Str("constructor"), NoName, NumberName}
ExplicitCodes == {Undefined, Num(0), Num(404)}
HandlerErrors ==
  { MkErr(k, n, s, "boom") : k \in {"object", "frozen"}, n \in ErrNames, s \in ExplicitCodes }
  \cup { MkErr("primitive", NoName, Undefined, "oops") }

\* err.toString(): Error.prototype.toString, or the string itself.
ErrToString(e) ==
  IF e.kind = "primitive" THEN e.message
  ELSE (IF e.name.t = "undefined" THEN "Error" ELSE e.name.v) \o ": " \o e.message

\* What the strict-mode code of the class body throws.
TypeErrorThrown == MkErr("object", Str("TypeError"), Undefined, "Cannot assign to property")
RangeErrorThrown == MkErr("object", Str("RangeError"), Undefined, "Invalid status code")
HeadersSentThrown == MkErr("object", Str("Error"), Undefined, "Can't set headers after they are sent")

(***************************************************************************)
(* The stack of layers, in the order the constructor attaches them.        *)
(***************************************************************************)
Layer(n, p, k) == [name |-> n, path |-> p, kind |-> k]

\* _setupExpressMiddleware: expressApp.use(...) without a path.
Middleware ==
  << Layer("createReqLogger", << >>, "mw"),
     Layer("cors", << >>, "mw"),
     Layer("bodyParser.raw", << >>, "mw"),
     Layer("bodyParser.json", << >>, "mw"),
     Layer("expressRest", << >>, "mw") >>

Open(p, r) == << Layer(r, p, "router") >>
Guard(p, r) == << Layer("authorization", p, "gate"), Layer(r, p, "router") >>

\* A variant of the route table that puts the gate on /person instead of /stats.
RoutesPersonGuarded ==
  Open(<< >>, "rootRouter") \o
  Open(<<"auth">>, "authRouter") \o
  Open(<<"stats">>, "statsRouter") \o
  Guard(<<"person">>, "personRouter") \o
  Open(<<"notification">>, "notificationRouter") \o
  Open(<<"person-request">>, "personRequestRouter") \o
  Open(<<"contributor">>, "contributorRouter") \o
  Guard(<<"user">>, "userRouter") \o
  Guard(<<"role">>, "roleRouter") \o
  Guard(<<"permission">>, "permissionRouter") \o
  Guard(<<"organization">>, "organizationRouter")

\* A variant that mounts two handler groups on /person.
RoutesSharedPrefix ==
  Open(<< >>, "rootRouter") \o
  Open(<<"auth">>, "authRouter") \o
  Guard(<<"stats">>, "statsRouter") \o
  Open(<<"person">>, "personRouter") \o
  Open(<<"notification">>, "notificationRouter") \o
  Open(<<"person">>, "personRequestRouter") \o
  Open(<<"contributor">>, "contributorRouter") \o
  Guard(<<"user">>, "userRouter") \o
  Guard(<<"role">>, "roleRouter") \o
  Guard(<<"permission">>, "permissionRouter") \o
  Guard(<<"organization">>, "organizationRouter")

\* A variant that mounts the root group after the resources.
RoutesRootLast ==
  Open(<<"auth">>, "authRouter") \o
  Guard(<<"stats">>, "statsRouter") \o
  Open(<<"person">>, "personRouter") \o
  Open(<<"notification">>, "notificationRouter") \o
  Open(<<"person-request">>, "personRequestRouter") \o
  Open(<<"contributor">>, "contributorRouter") \o
  Guard(<<"user">>, "userRouter") \o
  Guard(<<"role">>, "roleRouter") \o
  Guard(<<"permission">>, "permissionRouter") \o
  Guard(<<"organization">>, "organizationRouter") \o
  Open(<< >>, "rootRouter")

\* _setupExpressRoutes: the route table.
Routes ==
  Open(<< >>, "rootRouter") \o
  Open(<<"auth">>, "authRouter") \o
  Guard(<<"stats">>, "statsRouter") \o
  Open(<<"person">>, "personRouter") \o
  Open(<<"notification">>, "notificationRouter") \o
  Open(<<"person-request">>, "personRequestRouter") \o
  Open(<<"contributor">>, "contributorRouter") \o
  Guard(<<"user">>, "userRouter") \o
  Guard(<<"role">>, "roleRouter") \o
  Guard(<<"permission">>, "permissionRouter") \o
  Guard(<<"organization">>, "organizationRouter")

\* _setupErrorHandler: the four-argument handler.
ErrorLayer == << Layer("errorHandler", << >>, "error") >>

\* A variant that attaches the route table ahead of the middleware.
StackRoutesFirst == Routes \o Middleware \o ErrorLayer

\* The constructor: middleware, routes, error handler.
Stack == Middleware \o Routes \o ErrorLayer

\* Express matches a layer's path as a prefix of whole segments.
Match(lp, rp) == Len(lp) <= Len(rp) /\ SubSeq(rp, 1, Len(lp)) = lp

\* next(): the first layer from index i on whose path matches and that
\* takes errors exactly when one is travelling; Len(Stack) + 1 when none.
NextLayer(i, rp, failing) ==
  LET ok == { j \in i..Len(Stack) :
                /\ Match(Stack[j].path, rp)
                /\ (Stack[j].kind = "error") = failing }
  IN IF ok = {} THEN Len(Stack) + 1
     ELSE CHOOSE j \in ok : \A k \in ok : j <= k

\* The request paths of the model: every registered prefix, a path below
\* one, and a path no resource owns.
ReqPaths ==
  { Stack[j].path : j \in 1..Len(Stack) } \cup { <<"person", "42">>, <<"unknown">> }

Creds == {"none", "bad", "good"}
RequestIds == {"", "rid-1"}

(***************************************************************************)
(* The response and the logger.                                            *)
(***************************************************************************)
NewRes == [statusCode |-> Num(200), body |-> "", headersSent |-> FALSE]
NoLogger == [attached |-> FALSE, requestId |-> ""]

\* this.logger.child(req.headers['x-request-id'] ? { requestId: ... } : {})
ChildLogger(r) == [attached |-> TRUE, requestId |-> r]

Entry(lg, level, msg, sc) ==
  [level |-> level, msg |-> msg, requestId |-> lg.requestId, statusCode |-> sc]

\* Node accepts an integer from 100 to 999 as a status code.
ValidStatus(s) == s.t = "number" /\ s.v >= 100 /\ s.v <= 999

\* The HTTP server of a Server instance that was just constructed: no handle,
\* no event on its way, no listener of its 'listening' event.
NewServer ==
  [state |-> "constructed", event |-> "none", listeners |-> 0, cbs |-> << >>,
   calls |-> 0, threw |-> 0, bound |-> 0, failed |-> 0, wasClosed |-> FALSE]

\* No run of the error handler yet.
NoRun == [done |-> FALSE]
NoRuns == [prev |-> NoRun, cur |-> NoRun]

\* The requests that are in flight together.
NumReqs == 2
MaxClock == 3
Reqs == 1..NumReqs
NoReq ==
  [stage |-> "absent", header |-> "", arrivedAt |-> 0, _startTime |-> 0,
   logger |-> NoLogger, statusCode |-> Undefined]
NoRequests == [now |-> 0, req |-> [i \in Reqs |-> NoReq], log |-> << >>]

Init ==
  /\ life = NewServer
  /\ runs = NoRuns
  /\ conc = NoRequests
  /\ phase = "idle"
  /\ path = << >>
  /\ cred = "none"
  /\ rid = ""
  /\ pos = 1
  /\ err = NoErr
  /\ res = NewRes
  /\ responses = 0
  /\ sock = "open"
  /\ hooks = 0
  /\ logger = NoLogger
  /\ log = << >>
  /\ trace = << >>
  /\ gate = "none"
  /\ classified = NoErr
  /\ stopped = 0
  /\ writer = ""

(***************************************************************************)
(* Writing a response.                                                     *)
(***************************************************************************)
\* res.status(s).send(b): status() stores s; send() throws when the headers
\* are already out or when Node refuses the status code, else it writes.
Send(r, s, b) ==
  IF r.headersSent
    THEN [res |-> [r EXCEPT !.statusCode = s], wrote |-> FALSE, thrown |-> HeadersSentThrown]
  ELSE IF ~ValidStatus(s)
    THEN [res |-> [r EXCEPT !.statusCode = s], wrote |-> FALSE, thrown |-> RangeErrorThrown]
  ELSE [res |-> [statusCode |-> s, body |-> b, headersSent |-> TRUE],
        wrote |-> TRUE, thrown |-> NoErr]

(***************************************************************************)
(* Dispatch.                                                               *)
(***************************************************************************)
\* The layer the request is offered to next.
Cur == NextLayer(pos, path, err # NoErr)
Offered(n) == phase = "running" /\ Cur <= Len(Stack) /\ Stack[Cur].name = n
Enter == trace' = Append(trace, Stack[Cur].name)

\* A layer calls next(): the request moves on unchanged.
Pass ==
  /\ pos' = Cur + 1
  /\ Enter
  /\ UNCHANGED <<phase, err, res, responses, stopped, writer>>

\* A layer throws or calls next(e).
Raise(e) ==
  /\ pos' = Cur + 1
  /\ err' = e
  /\ stopped' = IF stopped = 0 THEN Cur ELSE stopped
  /\ Enter
  /\ UNCHANGED <<phase, res, responses, writer>>

\* A layer answers the request itself: the chain stops.
Respond(s, b) ==
  /\ res' = Send(res, s, b).res
  /\ responses' = responses + 1
  /\ writer' = Stack[Cur].name
  /\ phase' = "ended"
  /\ pos' = Cur + 1
  /\ stopped' = IF stopped = 0 THEN Cur ELSE stopped
  /\ Enter
  /\ UNCHANGED err

(***************************************************************************)
(* The request arrives: http.createServer(this.expressApp).                *)
(***************************************************************************)
Arrive ==
  /\ phase = "idle"
  /\ \E p \in ReqPaths, c \in Creds, r \in RequestIds :
       /\ path' = p
       /\ cred' = c
       /\ rid' = r
  /\ phase' = "running"
  /\ UNCHANGED <<pos, err, res, responses, sock, hooks, logger, log, trace,
                 gate, classified, stopped, writer>>
  /\ UNCHANGED aux

(***************************************************************************)
(* createReqLogger                                                         *)
(***************************************************************************)
\* A variant that logs the request but registers no completion listener.
CreateReqLoggerNoHook ==
  /\ Offered("createReqLogger")
  /\ logger' = ChildLogger(rid)
  /\ log' = Append(log, Entry(logger', "info", "Incoming request", Undefined))
  /\ Pass
  /\ UNCHANGED <<path, cred, rid, sock, hooks, gate, classified>>
  /\ UNCHANGED aux

CreateReqLogger ==
  /\ Offered("createReqLogger")
  /\ logger' = ChildLogger(rid)
  /\ log' = Append(log, Entry(logger', "info", "Incoming request", Undefined))
  /\ hooks' = hooks + 1
  /\ Pass
  /\ UNCHANGED <<path, cred, rid, sock, gate, classified>>
  /\ UNCHANGED aux

\* A variant that listens to the response's finish event alone.
OnFinishedOnlyFinish ==
  /\ hooks > 0
  /\ res.headersSent
  /\ hooks' = hooks - 1
  /\ log' = Append(log, Entry(logger, "info", "Outgoing response", res.statusCode))
  /\ UNCHANGED <<phase, path, cred, rid, pos, err, res, responses, sock, logger,
                 trace, gate, classified, stopped, writer>>
  /\ UNCHANGED aux

\* The callback given to onFinished: it runs once the response has finished
\* or the socket has closed, once per registration.
OnFinished ==
  /\ hooks > 0
  /\ res.headersSent \/ sock = "closed"
  /\ hooks' = hooks - 1
  /\ log' = Append(log, Entry(logger, "info", "Outgoing response", res.statusCode))
  /\ UNCHANGED <<phase, path, cred, rid, pos, err, res, responses, sock, logger,
                 trace, gate, classified, stopped, writer>>
  /\ UNCHANGED aux

(***************************************************************************)
(* Cross-cutting middleware                                                *)
(***************************************************************************)
PayloadTooLarge == MkErr("object", Str("PayloadTooLargeError"), Num(413), "request entity too large")
BodySyntaxError == MkErr("object", Str("SyntaxError"), Num(400), "Unexpected token")

\* cors(this.config.cors): answers a preflight itself, else passes.
Cors ==
  /\ Offered("cors")
  /\ Pass \/ Respond(Num(204), "")
  /\ UNCHANGED <<path, cred, rid, sock, hooks, logger, log, gate, classified>>
  /\ UNCHANGED aux

\* expressBodyParser.raw({ limit: '5mb' })
BodyParserRaw ==
  /\ Offered("bodyParser.raw")
  /\ Pass \/ Raise(PayloadTooLarge)
  /\ UNCHANGED <<path, cred, rid, sock, hooks, logger, log, gate, classified>>
  /\ UNCHANGED aux

\* expressBodyParser.json({ limit: '5mb' })
BodyParserJson ==
  /\ Offered("bodyParser.json")
  /\ Pass \/ Raise(BodySyntaxError)
  /\ UNCHANGED <<path, cred, rid, sock, hooks, logger, log, gate, classified>>
  /\ UNCHANGED aux

\* expressRest({ resourceId: '_id', maxResultsLimit: ... })
ExpressRest ==
  /\ Offered("expressRest")
  /\ Pass
  /\ UNCHANGED <<path, cred, rid, sock, hooks, logger, log, gate, classified>>
  /\ UNCHANGED aux

(***************************************************************************)
(* The route table                                                         *)
(***************************************************************************)
\* The error the Authorization Gate halts a request with.
AuthError(c) ==
  MkErr("object", Str("UnauthorizedError"), Undefined,
        IF c = "none" THEN "No authorization token was found" ELSE "invalid token")

\* The Authorization Gate: allows a valid credential, rejects anything else.
Authorization ==
  /\ Offered("authorization")
  /\ IF cred = "good"
       THEN Pass /\ gate' = "allowed"
       ELSE Raise(AuthError(cred)) /\ gate' = "rejected"
  /\ UNCHANGED <<path, cred, rid, sock, hooks, logger, log, classified>>
  /\ UNCHANGED aux

\* A handler group: answers, passes the request on (no sub-route of its own
\* matches), or fails.
Router ==
  /\ phase = "running"
  /\ Cur <= Len(Stack)
  /\ Stack[Cur].kind = "router"
  /\ \/ Respond(Num(200), "ok")
     \/ Pass
     \/ \E e \in HandlerErrors : Raise(e)
  /\ UNCHANGED <<path, cred, rid, sock, hooks, logger, log, gate, classified>>
  /\ UNCHANGED aux

(***************************************************************************)
(* The error handler                                                       *)
(***************************************************************************)
\* A variant that compares the name with a misspelt kind.
IsUnauthorizedTypo(e) == e.name = Str("Unauthorized")

\* err && err.name === 'UnauthorizedError'
IsUnauthorized(e) == e.name = Str("UnauthorizedError")

\* A variant that classifies by name alone.
SettledStatusByName(e) == Or(LookupStatus(e.name), Num(500))

\* err.statusCode || (err.statusCode = Server.statusCodeByErrorName[err.name] || 500):
\* the value of the expression,
SettledStatus(e) == Or(e.statusCode, Or(LookupStatus(e.name), Num(500)))
\* and whether it assigns to err.statusCode, which strict-mode code can do
\* only on an extensible object.
Assigns(e) == ~Truthy(e.statusCode)
Writable(e) == e.kind = "object"

Outcome(r, w, t, lg) == [res |-> r, wrote |-> w, thrown |-> t, log |-> lg]

\* A variant that logs the error and forgets to answer.
HandleErrorSilent(e, r, lgr, lg) ==
  Outcome(r, FALSE, NoErr,
          lg \o << Entry(lgr, "error", ErrToString(e), Undefined),
                   Entry(lgr, "verbose", "Responding to client", Undefined) >>)

\* A variant that writes the response first and logs afterwards.
HandleErrorSendFirst(e, r, lgr, lg) ==
  IF IsUnauthorized(e)
    THEN LET s == Send(r, Num(401), e.message)
         IN Outcome(s.res, s.wrote, s.thrown, lg)
  ELSE IF Assigns(e) /\ ~Writable(e)
    THEN Outcome(r, FALSE, TypeErrorThrown, lg)
  ELSE LET s == Send(r, SettledStatus(e), ErrToString(e))
       IN IF ~s.wrote THEN Outcome(s.res, FALSE, s.thrown, lg)
          ELSE IF ~lgr.attached THEN Outcome(s.res, TRUE, TypeErrorThrown, lg)
          ELSE Outcome(s.res, TRUE, NoErr,
                       lg \o << Entry(lgr, "error", ErrToString(e), Undefined),
                                Entry(lgr, "verbose", "Responding to client", Undefined) >>)

\* A variant that logs the authorization failure like any other error.
HandleErrorLogsAll(e, r, lgr, lg) ==
  IF ~IsUnauthorized(e) /\ Assigns(e) /\ ~Writable(e)
    THEN Outcome(r, FALSE, TypeErrorThrown, lg)
  ELSE IF ~lgr.attached
    THEN Outcome(r, FALSE, TypeErrorThrown, lg)
  ELSE LET lg2 == lg \o << Entry(lgr, "error", ErrToString(e), Undefined),
                          Entry(lgr, "verbose", "Responding to client", Undefined) >>
           s == IF IsUnauthorized(e) THEN Send(r, Num(401), e.message)
                ELSE Send(r, SettledStatus(e), ErrToString(e))
       IN Outcome(s.res, s.wrote, s.thrown, lg2)

\* The body of the handler on error e, response r, req.logger lgr and the
\* entries lg logged so far.
HandleError(e, r, lgr, lg) ==
  IF IsUnauthorized(e)
    THEN LET s == Send(r, Num(401), e.message)
         IN Outcome(s.res, s.wrote, s.thrown, lg)
  ELSE IF Assigns(e) /\ ~Writable(e)
    THEN Outcome(r, FALSE, TypeErrorThrown, lg)
  ELSE IF ~lgr.attached
    THEN Outcome(r, FALSE, TypeErrorThrown, lg)
  ELSE LET lg2 == lg \o << Entry(lgr, "error", ErrToString(e), Undefined),
                          Entry(lgr, "verbose", "Responding to client", Undefined) >>
           s == Send(r, SettledStatus(e), ErrToString(e))
       IN Outcome(s.res, s.wrote, s.thrown, lg2)

\* expressApp.use((err, req, res, next) => ...).  An exception of the handler
\* is caught by Express and travels on in place of the error.
ErrorHandler ==
  /\ Offered("errorHandler")
  /\ LET o == HandleError(err, res, logger, log)
     IN /\ res' = o.res
        /\ log' = o.log
        /\ responses' = responses + (IF o.wrote THEN 1 ELSE 0)
        /\ writer' = IF o.wrote THEN "errorHandler" ELSE writer
        /\ err' = IF o.thrown = NoErr THEN err ELSE o.thrown
        /\ phase' = IF o.thrown = NoErr THEN "ended" ELSE "running"
  /\ classified' = err
  /\ pos' = Cur + 1
  /\ Enter
  /\ UNCHANGED <<path, cred, rid, sock, hooks, logger, gate, stopped>>
  /\ UNCHANGED aux

(***************************************************************************)
(* Past the last layer: the final handler Express installs for the app.    *)
(***************************************************************************)
FinalStatus(e, r) ==
  IF e = NoErr THEN Num(404)
  ELSE IF e.statusCode.t = "number" /\ e.statusCode.v >= 400 /\ e.statusCode.v <= 599
    THEN e.statusCode
  ELSE IF r.statusCode.t = "number" /\ r.statusCode.v >= 400 /\ r.statusCode.v <= 599
    THEN r.statusCode
  ELSE Num(500)

FinalHandler ==
  /\ phase = "running"
  /\ Cur = Len(Stack) + 1
  /\ IF res.headersSent
       THEN /\ sock' = "closed"
            /\ UNCHANGED <<res, responses, writer>>
       ELSE /\ res' = Send(res, FinalStatus(err, res),
                           IF err = NoErr THEN "Not Found" ELSE "Internal Server Error").res
            /\ responses' = responses + 1
            /\ writer' = "finalhandler"
            /\ UNCHANGED sock
  /\ phase' = "ended"
  /\ UNCHANGED <<path, cred, rid, pos, err, hooks, logger, log, trace, gate,
                 classified, stopped>>
  /\ UNCHANGED aux

(***************************************************************************)
(* The client                                                              *)
(***************************************************************************)
\* The client goes away before the response is complete.  Express runs
\* createReqLogger in the tick the request arrives in, so the socket cannot
\* close before it has run.
Disconnect ==
  /\ phase = "running"
  /\ logger.attached
  /\ sock = "open"
  /\ ~res.headersSent
  /\ sock' = "closed"
  /\ UNCHANGED <<phase, path, cred, rid, pos, err, res, responses, hooks, logger,
                 log, trace, gate, classified, stopped, writer>>
  /\ UNCHANGED aux

\* The request is over and its listeners have run: the server takes the
\* next request with a fresh req and res.
Release ==
  /\ phase = "ended"
  /\ hooks = 0
  /\ phase' = "idle"
  /\ path' = << >>
  /\ cred' = "none"
  /\ rid' = ""
  /\ pos' = 1
  /\ err' = NoErr
  /\ res' = NewRes
  /\ responses' = 0
  /\ sock' = "open"
  /\ hooks' = 0
  /\ logger' = NoLogger
  /\ log' = << >>
  /\ trace' = << >>
  /\ gate' = "none"
  /\ classified' = NoErr
  /\ stopped' = 0
  /\ writer' = ""
  /\ UNCHANGED aux

Next ==
  \/ Arrive
  \/ CreateReqLogger
  \/ OnFinished
  \/ Cors
  \/ BodyParserRaw
  \/ BodyParserJson
  \/ ExpressRest
  \/ Authorization
  \/ Router
  \/ ErrorHandler
  \/ FinalHandler
  \/ Disconnect
  \/ Release

Spec == Init /\ [][Next]_vars

\* The event loop delivers a finished response or a closed socket to the
\* onFinished listener, and Express runs the error handler and its final
\* handler as soon as the request reaches them.
LiveSpec ==
  /\ Spec
  /\ WF_vars(OnFinished)
  /\ WF_vars(ErrorHandler)
  /\ WF_vars(FinalHandler)

(***************************************************************************)
(* listen(cb) and close(cb) of the Server, on Node's http.Server.          *)
(* The caller's calls come between the turns of the event loop: an event   *)
(* the server has scheduled is emitted before the caller's next call.      *)
(***************************************************************************)
MaxCalls == 6

\* (err) => { if (err) { return cb(err) } ... cb(null) }: what the caller's
\* callback gets when the wrapper is called with err.
ListenCallback(e) ==
  IF e # "undefined" THEN [call |-> "listen", err |-> e]
  ELSE [call |-> "listen", err |-> "null"]

RECURSIVE Times(_, _)
Times(n, x) == IF n = 0 THEN << >> ELSE << x >> \o Times(n - 1, x)

\* this._httpServer.listen(port, wrapper): Node throws when the server has
\* a handle already; else it registers the wrapper once on 'listening',
\* binds, and schedules 'listening' or, when the bind fails, 'error'.
Listen ==
  /\ life.state # "crashed"
  /\ life.event = "none"
  /\ life.calls < MaxCalls
  /\ IF life.state = "listening"
       THEN life' = [life EXCEPT !.calls = @ + 1, !.threw = @ + 1]
       ELSE \E ok \in BOOLEAN :
              life' = IF ok
                        THEN [life EXCEPT !.calls = @ + 1, !.listeners = @ + 1,
                                          !.state = "listening", !.event = "listening",
                                          !.bound = @ + 1]
                        ELSE [life EXCEPT !.calls = @ + 1, !.listeners = @ + 1,
                                          !.event = "error", !.failed = @ + 1]
  /\ UNCHANGED <<reqVars, runs, conc>>

\* 'listening' is emitted without an argument: every wrapper registered with
\* once('listening') runs, and is removed.
EmitListening ==
  /\ life.event = "listening"
  /\ life' = [life EXCEPT !.event = "none", !.listeners = 0,
                          !.cbs = @ \o Times(life.listeners, ListenCallback("undefined"))]
  /\ UNCHANGED <<reqVars, runs, conc>>

\* 'error' is emitted on an http.Server that has no 'error' listener: the
\* emitter throws, nothing catches it, the process ends.  The wrapper stays
\* registered on 'listening' and is not called.
EmitError ==
  /\ life.event = "error"
  /\ life' = [life EXCEPT !.event = "none", !.state = "crashed"]
  /\ UNCHANGED <<reqVars, runs, conc>>

\* this._httpServer.close(cb): a listening server closes and calls cb();
\* a server that is not listening calls cb(ERR_SERVER_NOT_RUNNING).
Close ==
  /\ life.state # "crashed"
  /\ life.event = "none"
  /\ life.calls < MaxCalls
  /\ life' = IF life.state = "listening"
               THEN [life EXCEPT !.calls = @ + 1, !.state = "closed", !.wasClosed = TRUE,
                                 !.cbs = Append(@, [call |-> "close", err |-> "null"])]
               ELSE [life EXCEPT !.calls = @ + 1,
                                 !.cbs = Append(@, [call |-> "close",
                                                    err |-> "ERR_SERVER_NOT_RUNNING"])]
  /\ UNCHANGED <<reqVars, runs, conc>>

ServerNext ==
  \/ Listen
  \/ EmitListening
  \/ EmitError
  \/ Close

ServerSpec == Init /\ [][ServerNext]_vars

(***************************************************************************)
(* The error handler on its own: any error, a request with or without a    *)
(* scoped logger, a fresh response; the run before is remembered.          *)
(***************************************************************************)
Loggers == { NoLogger, ChildLogger("rid-1") }

\* One run of the error handler and, when it throws, of the final handler.
Run(e, lgr) ==
  LET o == HandleError(e, NewRes, lgr, << >>)
  IN [done |-> TRUE, err |-> e, logger |-> lgr, log |-> o.log, thrown |-> o.thrown,
      by |-> IF o.wrote THEN "errorHandler" ELSE "finalhandler",
      res |-> IF o.wrote THEN o.res
              ELSE Send(o.res, FinalStatus(o.thrown, o.res), "Internal Server Error").res]

Classify ==
  /\ \E e \in HandlerErrors, lgr \in Loggers :
       runs' = [prev |-> runs.cur, cur |-> Run(e, lgr)]
  /\ UNCHANGED <<reqVars, life, conc>>

ClassifierNext == Classify

ClassifierSpec == Init /\ [][ClassifierNext]_vars

(***************************************************************************)
(* createReqLogger with several requests in flight: each has its own req   *)
(* object, the clock is the one of the process.                            *)
(***************************************************************************)
\* prettyMs of a duration below one second.
PrettyMs(n) == ToString(n) \o "ms"

\* A variant that keeps the start time and the logger on the Server, where
\* every request finds them.
SetOnServer(reqs, i, t, lg) ==
  [j \in DOMAIN reqs |-> [reqs[j] EXCEPT !._startTime = t, !.logger = lg]]

\* req._startTime = Date.now(); req.logger = this.logger.child(...)
SetOnReq(reqs, i, t, lg) ==
  [reqs EXCEPT ![i]._startTime = t, ![i].logger = lg]

\* Date.now() moves on.
Tick ==
  /\ conc.now < MaxClock
  /\ conc' = [conc EXCEPT !.now = @ + 1]
  /\ UNCHANGED <<reqVars, life, runs>>

\* Request i arrives with or without an x-request-id and createReqLogger runs.
CreateReqLoggerOf(i) ==
  /\ conc.req[i].stage = "absent"
  /\ \E r \in RequestIds :
       LET arrived == [conc.req EXCEPT ![i].stage = "open", ![i].header = r,
                                       ![i].arrivedAt = conc.now]
           set == SetOnReq(arrived, i, conc.now, ChildLogger(r))
       IN conc' = [conc EXCEPT !.req = set,
                     !.log = Append(@, [msg |-> "Incoming request", of |-> i, at |-> conc.now,
                                        requestId |-> set[i].logger.requestId,
                                        statusCode |-> Undefined, duration |-> ""])]
  /\ UNCHANGED <<reqVars, life, runs>>

\* The response of request i finishes, or its socket closes.
FinishOf(i) ==
  /\ conc.req[i].stage = "open"
  /\ \E s \in {Num(200), Num(500)} :
       conc' = [conc EXCEPT !.req[i].stage = "finished", !.req[i].statusCode = s]
  /\ UNCHANGED <<reqVars, life, runs>>

\* The onFinished callback of request i: the closure reads its own req.
OnFinishedOf(i) ==
  /\ conc.req[i].stage = "finished"
  /\ conc' = [conc EXCEPT !.req[i].stage = "logged",
                 !.log = Append(@, [msg |-> "Outgoing response", of |-> i, at |-> conc.now,
                                    requestId |-> conc.req[i].logger.requestId,
                                    statusCode |-> conc.req[i].statusCode,
                                    duration |-> PrettyMs(conc.now - conc.req[i]._startTime)])]
  /\ UNCHANGED <<reqVars, life, runs>>

PairNext ==
  \/ Tick
  \/ \E i \in Reqs : CreateReqLoggerOf(i)
  \/ \E i \in Reqs : FinishOf(i)
  \/ \E i \in Reqs : OnFinishedOf(i)

PairSpec == Init /\ [][PairNext]_vars

(***************************************************************************)
(* Vocabulary of the properties                                            *)
(***************************************************************************)
Invoked(n) == \E i \in 1..Len(trace) : trace[i] = n
Logged(level, msg) ==
  Cardinality({ i \in 1..Len(log) : log[i].level = level /\ log[i].msg = msg })
Ingress == Logged("info", "Incoming request")
Egress == Logged("info", "Outgoing response")
ErrorRecords == Cardinality({ i \in 1..Len(log) : log[i].level = "error" })
Over == phase = "ended" /\ hooks = 0

\* The policy table: the guarded resources, and the handler group that owns
\* a request path.
GuardedResources == {"stats", "user", "role", "permission", "organization"}
OpenResources == {"auth", "person", "notification", "person-request", "contributor"}
UnderGuarded(rp) == Len(rp) > 0 /\ rp[1] \in GuardedResources
GroupOf(rp) ==
  IF Len(rp) = 0 \/ rp[1] \notin (GuardedResources \cup OpenResources) THEN "rootRouter"
  ELSE CASE rp[1] = "auth" -> "authRouter"
         [] rp[1] = "stats" -> "statsRouter"
         [] rp[1] = "person" -> "personRouter"
         [] rp[1] = "notification" -> "notificationRouter"
         [] rp[1] = "person-request" -> "personRequestRouter"
         [] rp[1] = "contributor" -> "contributorRouter"
         [] rp[1] = "user" -> "userRouter"
         [] rp[1] = "role" -> "roleRouter"
         [] rp[1] = "permission" -> "permissionRouter"
         [] rp[1] = "organization" -> "organizationRouter"
IndexOf(n) == CHOOSE j \in 1..Len(Stack) : Stack[j].name = n
AuthKind == Str("UnauthorizedError")
\* An error carries an explicit status code when its statusCode is set to
\* a status (a number other than 0).
HasExplicit(e) == e.statusCode.t = "number" /\ e.statusCode.v # 0

(***************************************************************************)
(* C1: a request under a guarded prefix that the Authorization Gate        *)
(* rejects is answered 401 with the authorization error's message, and the *)
(* handler group of the prefix is never invoked for it.                    *)
(***************************************************************************)
C1_RejectedIs401 ==
  gate = "rejected" =>
    /\ UnderGuarded(path)
    /\ ~Invoked(GroupOf(path))
    /\ err = AuthError(cred)
    /\ phase = "ended" =>
         /\ responses = 1
         /\ res.statusCode = Num(401)
         /\ res.body = AuthError(cred).message

C1_Witness ==
  /\ gate = "rejected"
  /\ phase = "ended"
  /\ res.statusCode = Num(401)
  /\ res.body = "No authorization token was found"
  /\ path = <<"organization">>

(***************************************************************************)
(* C2 as stated: every request under an unguarded prefix has the handler   *)
(* group of its prefix invoked, and the Authorization Gate is never run    *)
(* for it.                                                                 *)
(***************************************************************************)
C2_AlwaysInvoked ==
  (phase = "ended" /\ ~UnderGuarded(path)) =>
    /\ Invoked(GroupOf(path))
    /\ gate = "none"

(***************************************************************************)
(* C2, amended: for a request under an unguarded prefix the Authorization  *)
(* Gate is never run, whatever its credential; and the handler group of    *)
(* the prefix is invoked whenever every layer ahead of it (the             *)
(* cross-cutting middleware and the root handler group mounted at "/")     *)
(* has passed the request on.                                              *)
(***************************************************************************)
C2_UnguardedBypass ==
  (phase # "idle" /\ ~UnderGuarded(path)) =>
    /\ gate = "none"
    /\ ~Invoked("authorization")
    /\ ( /\ pos > IndexOf(GroupOf(path))
         /\ stopped \in {0} \cup (IndexOf(GroupOf(path))..Len(Stack)) )
       => Invoked(GroupOf(path))

C2_Witness ==
  /\ path = <<"person-request">>
  /\ cred = "none"
  /\ phase = "ended"
  /\ Invoked("personRequestRouter")
  /\ trace[Len(trace)] = "personRequestRouter"
  /\ res.statusCode = Num(200)

(***************************************************************************)
(* C3 as stated: each request gets exactly one ingress entry and exactly   *)
(* one egress entry; the ingress entry precedes any handler logic; the     *)
(* egress entry comes after the ingress entry and after the response has   *)
(* been written.                                                           *)
(***************************************************************************)
FirstLogged(msg) == CHOOSE i \in 1..Len(log) : log[i].msg = msg
C3_Counts ==
  /\ Ingress <= 1
  /\ Egress <= 1
  /\ Len(trace) > 0 => (trace[1] = "createReqLogger" /\ Ingress = 1)
  /\ Egress = 1 =>
       (Ingress = 1 /\ FirstLogged("Incoming request") < FirstLogged("Outgoing response"))
  /\ Over => (Ingress = 1 /\ Egress = 1)

C3_EgressAfterResponse ==
  /\ C3_Counts
  /\ Egress = 1 => responses = 1

(***************************************************************************)
(* C3, amended: each request gets exactly one ingress entry and exactly    *)
(* one egress entry; the ingress entry precedes any handler logic; the     *)
(* egress entry comes after the ingress entry, and after the response has  *)
(* been written unless the client disconnected first, in which case it     *)
(* comes after the socket closed.                                          *)
(***************************************************************************)
C3_IngressEgress ==
  /\ C3_Counts
  /\ Egress = 1 => (responses = 1 \/ sock = "closed")

C3_Witness ==
  /\ Over
  /\ Ingress = 1
  /\ Egress = 1
  /\ classified # NoErr
  /\ sock = "open"
  /\ log[Len(log)].msg = "Outgoing response"

(***************************************************************************)
(* C4: when an error escapes a middleware or handler, exactly one response *)
(* is written, no layer runs after the error handler, and the completion   *)
(* listener still fires (the egress entry is logged).                      *)
(***************************************************************************)
C4_Safe ==
  err # NoErr =>
    /\ responses <= 1
    /\ phase = "ended" => responses = 1
    /\ classified # NoErr => trace[Len(trace)] = "errorHandler"
    /\ Egress <= 1
    /\ Over => Egress = 1

ErrorStatus(x) == x.t = "number" /\ x.v >= 400 /\ x.v <= 599
C6_ValidationIs400 ==
  ( /\ phase = "ended"
    /\ classified.kind # "none"
    /\ classified.name \in {Str("ValidationError"), Str("CastError")}
    /\ ~HasExplicit(classified) )
  => (res.statusCode = Num(400) /\ res.body = ErrToString(classified))

C8_ClassifierNeverFails ==
  classified.kind # "none" =>
    /\ phase = "ended"
    /\ writer = "errorHandler"
    /\ ( /\ ~HasExplicit(classified)
         /\ classified.name.v \notin DOMAIN statusCodeByErrorName
         /\ classified.name # AuthKind )
       => res.statusCode = Num(500)

(***************************************************************************)
(* C9: every error path (the 401 answer to an authorization failure, and   *)
(* the generic classification) leaves exactly one logged record of the     *)
(* failure and exactly one response.                                       *)
(***************************************************************************)
C9_OneRecordOneResponse ==
  (phase = "ended" /\ classified.kind # "none") =>
    /\ ErrorRecords = 1
    /\ responses = 1

(***************************************************************************)
(* C10: when the client disconnects before the response is complete, the   *)
(* completion listener of the request fires, and fires exactly once, even  *)
(* if the handler writes a response or the error handler runs afterwards.  *)
(***************************************************************************)
C10_Safe ==
  sock = "closed" => (hooks + Egress = 1 /\ Egress <= 1)

C10_DisconnectEgress ==
  /\ []C10_Safe
  /\ (sock = "closed") ~> (Egress = 1 /\ hooks = 0)

C10_Witness ==
  /\ sock = "closed"
  /\ Egress = 1
  /\ hooks = 0
  /\ log[2].msg = "Outgoing response"
  /\ classified.kind # "none"
  /\ writer = "errorHandler"
  /\ responses = 1

(***************************************************************************)
(* C11: a request is offered to no more than one handler group, because no *)
(* two registered prefixes match the same path.  The statement as claimed  *)
(* is C11_OneGroup; the code mounts the root group on /, which matches     *)
(* every path, so what holds is C11_RootAndOne: a request is offered to    *)
(* the root group and to at most one other group, the one that owns its    *)
(* first path segment, each once; the prefixes other than / are pairwise   *)
(* disjoint.                                                               *)
(***************************************************************************)
RouteEntries == { j \in 1..Len(Stack) : Stack[j].kind = "router" }
HandlerGroups == { Stack[j].name : j \in RouteEntries }
GroupsOffered == { n \in HandlerGroups : Invoked(n) }
Matching(rp) == { j \in RouteEntries : Match(Stack[j].path, rp) }
TimesOffered(n) == Cardinality({ i \in 1..Len(trace) : trace[i] = n })

C11_OneGroup ==
  /\ Cardinality(GroupsOffered) <= 1
  /\ phase # "idle" => Cardinality(Matching(path)) <= 1

C11_RootAndOne ==
  /\ GroupsOffered \subseteq {"rootRouter", GroupOf(path)}
  /\ \A n \in HandlerGroups : TimesOffered(n) <= 1
  /\ phase # "idle" =>
       Cardinality({ j \in Matching(path) : Stack[j].name # "rootRouter" }) <= 1
  /\ \A i, j \in RouteEntries :
       (i # j /\ Stack[i].name # "rootRouter" /\ Stack[j].name # "rootRouter") =>
         ~Match(Stack[i].path, Stack[j].path)

C11_Witness ==
  /\ phase = "ended"
  /\ path = <<"person", "42">>
  /\ GroupsOffered = {"rootRouter", "personRouter"}
  /\ writer = "personRouter"
  /\ Cardinality(Matching(path)) = 2

(***************************************************************************)
(* C12: the server goes from Constructed to Listening to Closed and never  *)
(* back: after any sequence of listen and close calls on one Server, a     *)
(* server that was closed is never listening again.                        *)
(***************************************************************************)
C12_ClosedNeverListens ==
  life.wasClosed => life.state # "listening"

(***************************************************************************)
(* C13: once the outcome of a listen call is known, the caller's callback  *)
(* has been invoked with the error for every bind that failed, and with no *)
(* error, the server serving, for every bind that succeeded.               *)
(***************************************************************************)
ListenCallbacks(e) ==
  Cardinality({ i \in 1..Len(life.cbs) : life.cbs[i] = [call |-> "listen", err |-> e] })

C13_BindOutcomeReported ==
  life.event = "none" =>
    /\ Cardinality({ i \in 1..Len(life.cbs) :
                       life.cbs[i].call = "listen" /\ life.cbs[i].err # "null" }) = life.failed
    /\ ListenCallbacks("null") = life.bound

(***************************************************************************)
(* C14: the pipeline is composed once, in a fixed order: the lifecycle     *)
(* middleware, then CORS, the raw-body parser, the JSON-body parser and    *)
(* the result-shaping helper, then the route table with its gates, then    *)
(* the error handler, last.  So a request passes the lifecycle middleware  *)
(* before any other layer, meets the layers in that order, and meets the   *)
(* error handler after every route.                                        *)
(***************************************************************************)
Rank(n) ==
  CASE n = "createReqLogger" -> 1
    [] n = "cors" -> 2
    [] n = "bodyParser.raw" -> 3
    [] n = "bodyParser.json" -> 4
    [] n = "expressRest" -> 5
    [] n = "errorHandler" -> 7
    [] OTHER -> 6

C14_FixedOrder ==
  /\ \A i \in 1..5 : Rank(Stack[i].name) = i
  /\ \A i \in 6..(Len(Stack) - 1) : Stack[i].kind \in {"gate", "router"}
  /\ Stack[Len(Stack)].name = "errorHandler"
  /\ \A i, j \in 1..Len(Stack) :
       (Stack[i].name = Stack[j].name /\ Stack[i].kind # "gate") => i = j
  /\ trace # << >> => trace[1] = "createReqLogger"
  /\ \A a, b \in 1..Len(trace) :
       a < b => /\ Rank(trace[a]) <= Rank(trace[b])
                /\ Rank(trace[a]) = Rank(trace[b]) => Rank(trace[a]) = 6
  /\ \A a \in 1..Len(trace) :
       trace[a] = "errorHandler" => a = Len(trace)

C14_Witness ==
  /\ phase = "ended"
  /\ trace = <<"createReqLogger", "cors", "bodyParser.raw", "bodyParser.json",
               "expressRest", "rootRouter", "authorization", "errorHandler">>

(***************************************************************************)
(* C15: the error handler keeps no state: two runs of it on errors with    *)
(* the same name and the same explicit status (both absent, or both the    *)
(* same value) answer with the same status, whatever ran in between.       *)
(***************************************************************************)
C15_SameKindSameStatus ==
  ( /\ runs.prev.done
    /\ runs.cur.done
    /\ runs.prev.logger.attached
    /\ runs.cur.logger.attached
    /\ runs.prev.err.name = runs.cur.err.name
    /\ runs.prev.err.statusCode = runs.cur.err.statusCode )
  => runs.prev.res.statusCode = runs.cur.res.statusCode

(***************************************************************************)
(* C16: with two or more requests in flight, in any interleaving, every    *)
(* entry a request logs on the way in and on the way out carries that      *)
(* request's own correlation id (or none, when it sent none), and the      *)
(* duration of its egress entry is counted from its own arrival.           *)
(***************************************************************************)
C16_OwnLoggerOwnClock ==
  \A k \in 1..Len(conc.log) :
    LET en == conc.log[k]
        rq == conc.req[en.of]
    IN /\ en.requestId = rq.header
       /\ en.msg = "Outgoing response" =>
            /\ en.duration = PrettyMs(en.at - rq.arrivedAt)
            /\ en.statusCode = rq.statusCode

C16_Witness ==
  /\ Len(conc.log) = 4
  /\ conc.log[1].msg = "Incoming request"
  /\ conc.log[2].msg = "Incoming request"
  /\ conc.log[3].msg = "Outgoing response"
  /\ conc.log[4].msg = "Outgoing response"
  /\ conc.log[3].of # conc.log[4].of
  /\ conc.log[3].requestId # conc.log[4].requestId
  /\ conc.log[3].duration = "1ms"
  /\ conc.log[4].duration = "3ms"
  /\ conc.req[1].arrivedAt # conc.req[2].arrivedAt

C18_UnauthorizedNeedsNoLogger ==
  runs.cur.done =>
    /\ runs.cur.err.name = AuthKind =>
         /\ runs.cur.by = "errorHandler"
         /\ runs.cur.thrown = NoErr
         /\ runs.cur.res.statusCode = Num(401)
         /\ runs.cur.res.body = runs.cur.err.message
         /\ runs.cur.log = << >>
    /\ (runs.cur.err.name # AuthKind /\ ~runs.cur.logger.attached) =>
         /\ runs.cur.by = "finalhandler"
         /\ runs.cur.thrown = TypeErrorThrown
         /\ runs.cur.log = << >>

C18_Witness ==
  /\ runs.prev.done
  /\ runs.prev.err.name = Str("MongoError")
  /\ ~runs.prev.logger.attached
  /\ runs.prev.by = "finalhandler"
  /\ runs.cur.done
  /\ runs.cur.err.name = AuthKind
  /\ runs.cur.err.statusCode = Num(404)
  /\ ~runs.cur.logger.attached
  /\ runs.cur.by = "errorHandler"
  /\ runs.cur.res.statusCode = Num(401)

(***************************************************************************)
(* C19: the root handler group is mounted on / ahead of every other route  *)
(* entry, so every request that gets as far as a gate or another handler   *)
(* group, whatever its path, was offered to the root group first; the gate *)
(* of a guarded prefix runs only if the root group passed the request on.  *)
(***************************************************************************)
Before(a, b) ==
  \E i, j \in 1..Len(trace) : i < j /\ trace[i] = a /\ trace[j] = b

C19_RootFirst ==
  /\ \A j \in 1..Len(Stack) :
       (Stack[j].kind \in {"gate", "router"} /\ Stack[j].name # "rootRouter") =>
         IndexOf("rootRouter") < j
  /\ \A p \in ReqPaths : Match(Stack[IndexOf("rootRouter")].path, p)
  /\ \A n \in (HandlerGroups \ {"rootRouter"}) \cup {"authorization"} :
       Invoked(n) => Before("rootRouter", n)
  /\ gate # "none" =>
       /\ Before("rootRouter", "authorization")
       /\ stopped # IndexOf("rootRouter")
  /\ stopped = IndexOf("rootRouter") =>
       /\ gate = "none"
       /\ GroupsOffered = {"rootRouter"}

C19_Witness ==
  /\ phase = "ended"
  /\ path = <<"user">>
  /\ cred = "none"
  /\ writer = "rootRouter"
  /\ res.statusCode = Num(200)
  /\ gate = "none"

====
